---- MODULE Spec2Model ----
(***************************************************************************)
(* Bucketed Hamming-distance indexes of multi_index:                       *)
(*   _simple_buckets_binvector_unaligned    (variant "simple")             *)
(*   _triangle_buckets_binvector_split_simd (variant "triangle")           *)
(*                                                                         *)
(* A 64-bit word is the set of its one-bit positions (0 = least            *)
(* significant), so popcount is Cardinality, xor is symmetric difference   *)
(* and every mask and shift keeps its true width.  Bucket ids, indices and *)
(* counters are integers.  Vectors are functions on 0 .. size-1.           *)
(***************************************************************************)
EXTENDS Integers, Sequences, FiniteSets, TLC

\* ---------------------------------------------------------------- bounds
\* number of freely chosen keys of an input
MaxN == 2
\* number of copies of PadKey at the front of a long input
MaxPad == 7
\* largest error bound of a query (MaxK <= t_k)
MaxK == 1

\* ------------------------------------------------------------ 64-bit words
WordBits == 64
Word == 0 .. (WordBits - 1)
AllOnes == Word
Xor(a, b) == (a \ b) \cup (b \ a)
Or(a, b) == a \cup b
And(a, b) == a \cap b
Shr(x, s) == { i - s : i \in { j \in x : j >= s } }
Shl(x, s) == { i + s : i \in { j \in x : j + s < WordBits } }
\* sdsl::bits::lo_set[w]: the w low bits
lo_set(w) == 0 .. (w - 1)
\* sdsl::bits::cnt, _mm_popcnt_u64, _mm_popcnt_u32
cnt(x) == Cardinality(x)

RECURSIVE Pow2(_)
Pow2(e) == IF e = 0 THEN 1 ELSE 2 * Pow2(e - 1)

\* the value of a word that fits an integer, and back
RECURSIVE ToNat(_)
ToNat(x) ==
  IF x = {} THEN 0
  ELSE LET i == CHOOSE j \in x : TRUE IN Pow2(i) + ToNat(x \ {i})
FromNat(v) == { i \in 0 .. 30 : (v \div Pow2(i)) % 2 = 1 }

\* ------------------------------------------------------- template values
t_b == 8
t_k == 7
match_len == t_b - t_k
\* perm_b_k::mi_permute_block_widths[t_id][j]: every meta-symbol is 8 bits
mi_permute_block_widths(j) == WordBits \div t_b

RECURSIVE init_splitter_bits(_)
init_splitter_bits(i) ==
  IF i < match_len
  THEN mi_permute_block_widths(t_b - 1 - i) + init_splitter_bits(i + 1)
  ELSE 0
splitter_bits == init_splitter_bits(0)
splitter_universe == Pow2(splitter_bits)

distance_bits == 6
low_bits == 32
low_mask == lo_set(low_bits)
mid_bits == WordBits - (low_bits + splitter_bits - distance_bits)
mid_shift == low_bits
mid_mask == lo_set(mid_bits)
high_shift == WordBits - splitter_bits + distance_bits

\* -------------------------------------------------------- the permutation
\* perm_b_k::mi_permute[t_id]: a permutation of the meta-symbols of the word;
\* meta-symbol 6 becomes the top one, 5 the next, 7 goes below them.
BlockTo(b) == CASE b = 6 -> 7 [] b = 5 -> 6 [] b = 7 -> 5 [] OTHER -> b
PermPos(i) ==
  LET w == WordBits \div t_b IN BlockTo(i \div w) * w + (i % w)
mi_permute(x) == { PermPos(i) : i \in x }
mi_rev_permute(y) == { i \in Word : PermPos(i) \in y }

\* ------------------------------------------------------ bucket addressing
Variants == {"simple", "triangle"}

simple_get_bucket_id(x) == ToNat(Shr(mi_permute(x), WordBits - splitter_bits))

\* the high prefix of the triangle variant, already shifted past the
\* cardinality field: (permute(x) >> (64-(splitter_bits-distance_bits))) << distance_bits
PrefixField(x) ==
  Shl(Shr(mi_permute(x), WordBits - (splitter_bits - distance_bits)), distance_bits)

get_bucket_id(x) ==
  LET cardin == cnt(x) IN ToNat(Or(PrefixField(x), FromNat(cardin)))

LeftCardin(cardin, n_errors) == IF cardin > n_errors THEN cardin - n_errors ELSE 0

get_bucket_left(x, n_errors) ==
  LET cardin == LeftCardin(cnt(x), n_errors)
  IN ToNat(Or(PrefixField(x), FromNat(cardin)))

RightCardin(cardin, n_errors) ==
  IF cardin + n_errors < 64 THEN cardin + n_errors ELSE 64

get_bucket_right(x, n_errors) ==
  LET cardin == RightCardin(cnt(x), n_errors)
  IN ToNat(Or(PrefixField(x), FromNat(cardin)))

bucket_id(v, x) == IF v = "simple" THEN simple_get_bucket_id(x) ELSE get_bucket_id(x)

\* ------------------------------------------------------------ the inputs
K_zero == {}
K_bit0 == {0}
K_fold == {0, 32}
K_ones == AllOnes
K_even63 == AllOnes \ {54}
K_odd63 == AllOnes \ {0}
K_odd60 == AllOnes \ {0, 1, 2, 3}
PadKey == {1}
Palette == {K_zero, K_bit0, K_fold, K_ones, K_even63, K_odd60}
QueryKeys == {K_zero, K_bit0, K_ones, K_even63, K_odd63}
Errors == 0 .. MaxK

SeqsUpTo(S, n) == UNION { [1 .. m -> S] : m \in 0 .. n }
Rep(x, n) == [i \in 1 .. n |-> x]
\* short inputs of any keys, and long ones: a run of PadKey and at most one more key
Inputs ==
  SeqsUpTo(Palette, MaxN)
    \cup { Rep(PadKey, MaxPad) \o s : s \in SeqsUpTo(Palette, 1) }

\* -------------------------------------------------------------- the state
VARIABLES
  variant,      \* which class template is instantiated
  input,        \* input_entries, the constructor's argument
  pc,           \* position of the client: constructing, built, serialized, loaded
  obj,          \* the two instances: "idx" (constructed) and "fresh" (loaded into)
  prefix_sums,  \* the local vector of build_small_universe
  cwrites,      \* the writes of m_C by build_small_universe: idx after the loop,
                \* and the indices written at or past m_C.size()
  slot_writes,  \* how many times each slot of the entry store was written
  stream,       \* the members written by serialize, in order
  last          \* the last call of match and what it returned

vars == <<variant, input, pc, obj, prefix_sums, cwrites, slot_writes, stream, last>>

Uninit == -1
NoCall == [op |-> "none"]
Vec(n, v) == [i \in 0 .. (n - 1) |-> v]
Size(vec) == Cardinality(DOMAIN vec)

\* a default-constructed instance
Default ==
  [m_n |-> Uninit, m_entries |-> << >>, m_low_entries |-> << >>,
   m_mid_entries |-> << >>, m_C |-> << >>, m_C_sel |-> [v |-> "null", arg_cnt |-> 0],
   base |-> 0]

\* where the allocator may put the data of m_low_entries: 8-byte aligned
Bases == {0, 8}

Init ==
  /\ variant \in Variants
  /\ input \in Inputs
  /\ pc = "new"
  /\ obj = [o \in {"idx", "fresh"} |-> Default]
  /\ prefix_sums = << >>
  /\ cwrites = [idx |-> 0, oob |-> << >>]
  /\ slot_writes = << >>
  /\ stream = << >>
  /\ last = NoCall

\* ------------------------------------------------------------ constructor
\* the constructor up to the call of build_small_universe
Construct(base) ==
  /\ pc = "new"
  /\ pc' = "alloc"
  /\ obj' = [obj EXCEPT !["idx"] =
       IF variant = "simple"
       THEN [@ EXCEPT !.m_n = Len(input), !.m_entries = Vec(Len(input), {})]
       ELSE [@ EXCEPT !.m_n = Len(input), !.m_low_entries = Vec(Len(input), {}),
                      !.m_mid_entries = Vec(Len(input), {}), !.base = base]]
  /\ slot_writes' = Vec(Len(input), 0)
  /\ UNCHANGED <<variant, input, prefix_sums, cwrites, stream, last>>

\* std::vector<uint64_t> prefix_sums(splitter_universe + 1, 0);
\* for (auto x : input_entries) prefix_sums[get_bucket_id(x)]++;
RECURSIVE Histogram(_, _, _, _)
Histogram(v, in, j, ps) ==
  IF j > Len(in) THEN ps
  ELSE Histogram(v, in, j + 1, [ps EXCEPT ![bucket_id(v, in[j])] = @ + 1])

CountKeys ==
  /\ pc = "alloc"
  /\ pc' = "counted"
  /\ prefix_sums' = Histogram(variant, input, 1, Vec(splitter_universe + 1, 0))
  /\ UNCHANGED <<variant, input, obj, cwrites, slot_writes, stream, last>>

\* m_C[idx] = v; idx++  (st.C is the bit vector, st.idx the cursor, st.oob the
\* indices written at or past the vector's size, which leave its size() bits
\* as they are)
WriteBit(st, v) ==
  IF st.idx \in DOMAIN st.C
  THEN [st EXCEPT !.C[st.idx] = v, !.idx = @ + 1]
  ELSE [st EXCEPT !.oob = Append(@, st.idx), !.idx = @ + 1]

RECURSIVE WriteZeros(_, _)
WriteZeros(st, x) == IF x = 0 THEN st ELSE WriteZeros(WriteBit(st, 0), x - 1)

\* for (i = 0; i < x; ++i, ++idx) m_C[idx] = 0;  m_C[idx++] = 1;
FillBucket_OneFirst(st, x) == WriteZeros(WriteBit(st, 1), x)
FillBucket(st, x) == WriteBit(WriteZeros(st, x), 1)

\* for (auto x : prefix_sums) { x zeros; one 1 }, over the elements a .. b-1
\* of prefix_sums (the loop is split in halves to keep the evaluation shallow)
RECURSIVE FillC(_, _, _, _)
FillC(ps, a, b, st) ==
  IF a >= b THEN st
  ELSE IF b = a + 1 THEN FillBucket(st, ps[a])
  ELSE LET m == (a + b) \div 2
           left == FillC(ps, a, m, st)
       IN IF left.idx >= 0 THEN FillC(ps, m, b, left) ELSE left

CountOnes(C) == Cardinality({ p \in DOMAIN C : C[p] = 1 })

BuildC ==
  /\ pc = "counted"
  /\ pc' = "C_built"
  /\ LET st == FillC(prefix_sums, 0, Size(prefix_sums),
                     [C |-> Vec(splitter_universe + Len(input), 0), idx |-> 0, oob |-> << >>])
     IN /\ obj' = [obj EXCEPT !["idx"].m_C = st.C,
                              !["idx"].m_C_sel = [v |-> "idx", arg_cnt |-> CountOnes(st.C)]]
        /\ cwrites' = [idx |-> st.idx, oob |-> st.oob]
  /\ UNCHANGED <<variant, input, prefix_sums, slot_writes, stream, last>>

\* uint64_t sum = prefix_sums[0]; prefix_sums[0] = 0;
\* for (i = 1; i < prefix_sums.size(); ++i) { curr = ps[i]; ps[i] = sum + i; sum += curr; }
\* st.ps is prefix_sums, st.sum is sum; the iterations a .. b-1, split in halves
RECURSIVE SumLoop(_, _, _)
SumLoop(a, b, st) ==
  IF a >= b THEN st
  ELSE IF b = a + 1
    THEN [ps |-> [st.ps EXCEPT ![a] = st.sum + a], sum |-> st.sum + st.ps[a]]
  ELSE LET m == (a + b) \div 2
           left == SumLoop(a, m, st)
       IN IF left.sum >= 0 THEN SumLoop(m, b, left) ELSE left

ExclusiveSums ==
  /\ pc = "C_built"
  /\ pc' = "summed"
  /\ prefix_sums' = SumLoop(1, Size(prefix_sums),
                          [ps |-> [prefix_sums EXCEPT ![0] = 0], sum |-> prefix_sums[0]]).ps
  /\ UNCHANGED <<variant, input, obj, cwrites, slot_writes, stream, last>>

\* the payload of the simple variant: int_vector<> of width 64 - splitter_bits
\* keeps the low bits of the value assigned
SimplePayload(x) == And(mi_permute(x), lo_set(WordBits - splitter_bits))

\* the payload of the triangle variant: low_xor and mid_item
low_xor_of(permuted_item) ==
  LET low_item == And(permuted_item, low_mask)
      mid_item == And(Shr(permuted_item, mid_shift), mid_mask)
  IN Xor(low_item, mid_item)
mid_of(permuted_item) == And(Shr(permuted_item, mid_shift), mid_mask)

\* the slot a key of this bucket is written to
Slot_NoSub(ps, bucket) == ps[bucket]
Slot(ps, bucket) == ps[bucket] - bucket

\* for (auto x : input_entries) { ...[prefix_sums[bucket]-bucket] = ...; prefix_sums[bucket]++; }
RECURSIVE PlaceLoop(_, _, _, _)
PlaceLoop(v, in, j, st) ==
  IF j > Len(in) THEN st
  ELSE
    LET x == in[j]
        bucket == bucket_id(v, x)
        slot == Slot(st.ps, bucket)
        permuted == mi_permute(x)
    IN PlaceLoop(v, in, j + 1,
         [ps |-> [st.ps EXCEPT ![bucket] = @ + 1],
          ent |-> IF v = "simple" THEN [st.ent EXCEPT ![slot] = SimplePayload(x)]
                  ELSE st.ent,
          low |-> IF v = "triangle" THEN [st.low EXCEPT ![slot] = low_xor_of(permuted)]
                  ELSE st.low,
          mid |-> IF v = "triangle" THEN [st.mid EXCEPT ![slot] = mid_of(permuted)]
                  ELSE st.mid,
          wr |-> [st.wr EXCEPT ![slot] = @ + 1]])

Place ==
  /\ pc = "summed"
  /\ pc' = "built"
  /\ LET st == PlaceLoop(variant, input, 1,
                 [ps |-> prefix_sums, ent |-> obj["idx"].m_entries,
                  low |-> obj["idx"].m_low_entries, mid |-> obj["idx"].m_mid_entries,
                  wr |-> slot_writes])
     IN /\ obj' = [obj EXCEPT !["idx"].m_entries = st.ent,
                              !["idx"].m_low_entries = st.low,
                              !["idx"].m_mid_entries = st.mid]
        /\ slot_writes' = st.wr
        /\ prefix_sums' = << >>
  /\ UNCHANGED <<variant, input, cwrites, stream, last>>

\* ------------------------------------------------------------ select_1
\* t_sel::operator()(i): the position of the i-th one (i >= 1) of the bit
\* vector the support is bound to; found by halving the range [a, b)
OnesIn(C, a, b) == Cardinality({ p \in a .. (b - 1) : C[p] = 1 })

RECURSIVE SelectIn(_, _, _, _)
SelectIn(C, a, b, i) ==
  IF b <= a + 1 THEN a
  ELSE LET m == (a + b) \div 2
           c == OnesIn(C, a, m)
       IN IF i <= c THEN SelectIn(C, a, m, i) ELSE SelectIn(C, m, b, i - c)

select_1(C, i) == SelectIn(C, 0, Size(C), i)

\* the bit vector m_C_sel of instance o reads
BoundC(objs, o) == objs[objs[o].m_C_sel.v].m_C

\* uint64_t a - b: an integer d < 0 stands for the wrapped value 2^64 + d
Sub64(a, b) == a - b
\* a <= b as uint64_t values
ULe(a, b) ==
  IF a >= 0 /\ b >= 0 THEN a <= b
  ELSE IF a < 0 /\ b < 0 THEN a <= b
  ELSE b < 0

\* l and r of match: the slice of the entry store from bucket bl to bucket br
SliceLeft(C, bl) == IF bl = 0 THEN 0 ELSE select_1(C, bl) - bl + 1
SliceRight(C, br) == select_1(C, br + 1) - (br + 1) + 1

\* ------------------------------------------------------------ match, simple
\* uint64_t mask = bucket << (64-splitter_bits);
BucketMask_NoShift(bucket) == FromNat(bucket)
BucketMask(bucket) == Shl(FromNat(bucket), WordBits - splitter_bits)

RECURSIVE SimpleScan(_, _, _, _, _, _)
SimpleScan(ent, p, mask, errors, end, st) ==
  IF st.it = end THEN st
  ELSE IF st.it \notin DOMAIN ent THEN [st EXCEPT !.ub = TRUE]
  ELSE
    LET e == ent[st.it]
        hit == cnt(Xor(p, e)) <= errors
    IN SimpleScan(ent, p, mask, errors, end,
         [st EXCEPT !.res = IF hit THEN Append(@, mi_rev_permute(Or(e, mask))) ELSE @,
                    !.visited = Append(@, <<st.it, st.it>>),
                    !.ph = Append(@, "scan"),
                    !.it = @ + 1, !.l = @ + 1])

SimpleMatch(o, C, q, errors, find_only_candidates) ==
  LET bucket == simple_get_bucket_id(q)
      l == SliceLeft(C, bucket)
      r == SliceRight(C, bucket)
      candidates == Sub64(r, l)
      p == And(mi_permute(q), lo_set(WordBits - splitter_bits))
      mask == BucketMask(bucket)
      st0 == [it |-> l, l |-> l, res |-> << >>, visited |-> << >>, ph |-> << >>,
              ub |-> FALSE]
      st == IF find_only_candidates THEN st0
            ELSE SimpleScan(o.m_entries, p, mask, errors, r, st0)
  IN [bl |-> bucket, br |-> bucket,
      begin |-> l, end |-> r, candidates |-> candidates, res |-> st.res,
      visited |-> st.visited, ph |-> st.ph, it |-> st.it, l |-> st.l, ub |-> st.ub]

\* ---------------------------------------------------------- match, triangle
\* the query's parts (lines 95-99)
QParts(q) ==
  LET q_permuted == mi_permute(q)
      q_low == And(And(q_permuted, low_mask), lo_set(32))
      q_mid == And(Shr(q_permuted, mid_shift), mid_mask)
  IN [q_permuted |-> q_permuted,
      q_high |-> Shl(Shr(q_permuted, high_shift), high_shift),
      q_xor |-> Xor(q_low, q_mid)]

\* the three first cuts: _mm_popcnt_u32, one lane of popcount_epi32 compared
\* with errors + 1, sdsl::bits::cnt
PrologueFilter(q_xor, item_xor, errors) ==
  cnt(And(Xor(q_xor, item_xor), lo_set(32))) <= errors
LaneFilter_NoPlusOne(q_xor, item_xor, errors) ==
  errors > cnt(And(Xor(q_xor, item_xor), lo_set(32)))
LaneFilter(q_xor, item_xor, errors) ==
  errors + 1 > cnt(And(Xor(q_xor, item_xor), lo_set(32)))
EpilogueFilter(q_xor, item_xor, errors) ==
  cnt(Xor(q_xor, item_xor)) <= errors

\* a survivor of the first cut: rebuild the entry under the query's prefix,
\* compare all 64 bits, push the original key
Verify(o, qp, errors, i, j, st) ==
  IF j \notin DOMAIN o.m_mid_entries THEN [st EXCEPT !.ub = TRUE]
  ELSE
    LET item_mid == o.m_mid_entries[j]
        item_xor == o.m_low_entries[i]
        item_low == Xor(item_xor, item_mid)
        curr_el == Or(Or(qp.q_high, Shl(item_mid, mid_shift)), item_low)
    IN IF cnt(Xor(qp.q_permuted, curr_el)) <= errors
       THEN [st EXCEPT !.res = Append(@, mi_rev_permute(curr_el))]
       ELSE st

\* ((size_t)it) % 16 of the pointer to entry it (entries are 4 bytes)
Misaligned(o, it) == (o.base + (low_bits \div 8) * it) % 16 /= 0

\* for (; ((size_t)it)%16 != 0 and it != end; ++it, ++l)
PrologueCond(o, it, end) == Misaligned(o, it) /\ it /= end
PrologueStep(st) ==
  [st EXCEPT !.visited = Append(@, <<st.it, st.l>>), !.ph = Append(@, "prologue"),
             !.it = @ + 1, !.l = @ + 1]

RECURSIVE Prologue(_, _, _, _, _)
Prologue(o, qp, errors, end, st) ==
  IF ~PrologueCond(o, st.it, end) THEN st
  ELSE IF st.it \notin DOMAIN o.m_low_entries THEN [st EXCEPT !.ub = TRUE]
  ELSE
    LET v == IF PrologueFilter(qp.q_xor, o.m_low_entries[st.it], errors)
             THEN Verify(o, qp, errors, st.it, st.l, st) ELSE st
    IN IF v.ub THEN v ELSE Prologue(o, qp, errors, end, PrologueStep(v))

\* for (; it < end-4; it+=4, l+=4)
\* (end-4 is address arithmetic; below the start of the store it is still an
\* address that compares smaller than it)
BodyCond_NoMargin(it, end) == it < end
BodyCond(it, end) == it < end - 4
BodyStep(st) ==
  [st EXCEPT !.visited = @ \o [i \in 1 .. 4 |-> <<st.it + i - 1, st.l + i - 1>>],
             !.ph = @ \o [i \in 1 .. 4 |-> "body"],
             !.it = @ + 4, !.l = @ + 4]

\* _mm_movemask_epi8(_mm_cmpgt_epi32(tk, popcounts)) & 0x1111
SimdMask(o, qp, errors, it) ==
  { 4 * i + b : i \in { k \in 0 .. 3 : LaneFilter(qp.q_xor, o.m_low_entries[it + k], errors) },
                b \in 0 .. 3 }
    \cap {0, 4, 8, 12}

\* while (mask) { i = ffs(mask) - 1; mask ^= 1 << i; i = i / 4; ... }
RECURSIVE MaskLoop(_, _, _, _, _)
MaskLoop(o, qp, errors, mask, st) ==
  IF mask = {} \/ st.ub THEN st
  ELSE
    LET b == CHOOSE x \in mask : \A y \in mask : x <= y
        i == b \div 4
    IN MaskLoop(o, qp, errors, mask \ {b},
                Verify(o, qp, errors, st.it + i, st.l + i, st))

RECURSIVE Body(_, _, _, _, _)
Body(o, qp, errors, end, st) ==
  IF st.ub \/ ~BodyCond(st.it, end) THEN st
  ELSE IF (st.it + 3) \notin DOMAIN o.m_low_entries \/ st.it \notin DOMAIN o.m_low_entries
    THEN [st EXCEPT !.ub = TRUE]
  ELSE
    LET v == MaskLoop(o, qp, errors, SimdMask(o, qp, errors, st.it), st)
    IN IF v.ub THEN v ELSE Body(o, qp, errors, end, BodyStep(v))

\* for (; it != end; ++it, ++l)
EpilogueCond(it, end) == it /= end
EpilogueStep(st) ==
  [st EXCEPT !.visited = Append(@, <<st.it, st.l>>), !.ph = Append(@, "epilogue"),
             !.it = @ + 1, !.l = @ + 1]

RECURSIVE Epilogue(_, _, _, _, _)
Epilogue(o, qp, errors, end, st) ==
  IF st.ub \/ ~EpilogueCond(st.it, end) THEN st
  ELSE IF st.it \notin DOMAIN o.m_low_entries THEN [st EXCEPT !.ub = TRUE]
  ELSE
    LET v == IF EpilogueFilter(qp.q_xor, o.m_low_entries[st.it], errors)
             THEN Verify(o, qp, errors, st.it, st.l, st) ELSE st
    IN IF v.ub THEN v ELSE Epilogue(o, qp, errors, end, EpilogueStep(v))

TriangleMatch(o, C, q, errors, find_only_candidates) ==
  LET bucket_left == get_bucket_left(q, errors)
      bucket_right == get_bucket_right(q, errors)
      l == SliceLeft(C, bucket_left)
      r == SliceRight(C, bucket_right)
      candidates == Sub64(r, l)
      qp == QParts(q)
      st0 == [it |-> l, l |-> l, res |-> << >>, visited |-> << >>, ph |-> << >>,
              ub |-> FALSE]
      st == IF find_only_candidates THEN st0
            ELSE Epilogue(o, qp, errors, r,
                   Body(o, qp, errors, r, Prologue(o, qp, errors, r, st0)))
  IN [bl |-> bucket_left, br |-> bucket_right,
      begin |-> l, end |-> r, candidates |-> candidates, res |-> st.res,
      visited |-> st.visited, ph |-> st.ph, it |-> st.it, l |-> st.l, ub |-> st.ub]

\* match of instance who: what it returns, and the trace of its scan
\* (ub: the scan left the entry store, or the select support is unbound)
MatchOf(v, objs, who, q, errors, flag) ==
  IF objs[who].m_C_sel.v = "null"
  THEN [bl |-> 0, br |-> 0, begin |-> 0, end |-> 0, candidates |-> 0, res |-> << >>,
        visited |-> << >>, ph |-> << >>, it |-> 0, l |-> 0, ub |-> TRUE]
  ELSE IF v = "simple"
    THEN SimpleMatch(objs[who], BoundC(objs, who), q, errors, flag)
  ELSE TriangleMatch(objs[who], BoundC(objs, who), q, errors, flag)

\* the instance the client holds
Held == IF pc = "loaded" THEN "fresh" ELSE "idx"

Match(q, errors, flag) ==
  /\ pc \in {"built", "serialized", "loaded"}
  /\ last = NoCall
  /\ last' = [op |-> "match", who |-> Held, q |-> q, errors |-> errors, flag |-> flag,
              out |-> MatchOf(variant, obj, Held, q, errors, flag)]
  /\ UNCHANGED <<variant, input, pc, obj, prefix_sums, cwrites, slot_writes, stream>>

\* the caller drops the pair match returned
Discard ==
  /\ last /= NoCall
  /\ last' = NoCall
  /\ UNCHANGED <<variant, input, pc, obj, prefix_sums, cwrites, slot_writes, stream>>

\* ------------------------------------------------------ serialize and load
\* int_vector / bit_vector serialize: the size in bits, then the data
SerVec(vec, width) == [bits |-> Size(vec) * width, width |-> width, data |-> vec]
LoadVec(s) == [i \in 0 .. ((s.bits \div s.width) - 1) |-> s.data[i]]

Members(v, o) ==
  IF v = "simple"
  THEN << o.m_n, SerVec(o.m_entries, WordBits - splitter_bits),
          SerVec(o.m_C, 1), o.m_C_sel.arg_cnt >>
  ELSE << o.m_n, SerVec(o.m_low_entries, low_bits), SerVec(o.m_mid_entries, mid_bits),
          SerVec(o.m_C, 1), o.m_C_sel.arg_cnt >>

Serialize ==
  /\ pc = "built"
  /\ pc' = "serialized"
  /\ last = NoCall
  /\ stream' = Members(variant, obj["idx"])
  /\ UNCHANGED <<variant, input, obj, prefix_sums, cwrites, slot_writes, last>>

\* load: the members in the order read, the select support bound to self's m_C
Loaded_MidFirst(v, in, self, base) ==
  IF v = "simple"
  THEN [m_n |-> in[1], m_entries |-> LoadVec(in[2]), m_low_entries |-> << >>,
        m_mid_entries |-> << >>, m_C |-> LoadVec(in[3]),
        m_C_sel |-> [v |-> self, arg_cnt |-> in[4]], base |-> 0]
  ELSE [m_n |-> in[1], m_entries |-> << >>, m_low_entries |-> LoadVec(in[3]),
        m_mid_entries |-> LoadVec(in[2]), m_C |-> LoadVec(in[4]),
        m_C_sel |-> [v |-> self, arg_cnt |-> in[5]], base |-> base]
Loaded(v, in, self, base) ==
  IF v = "simple"
  THEN [m_n |-> in[1], m_entries |-> LoadVec(in[2]), m_low_entries |-> << >>,
        m_mid_entries |-> << >>, m_C |-> LoadVec(in[3]),
        m_C_sel |-> [v |-> self, arg_cnt |-> in[4]], base |-> 0]
  ELSE [m_n |-> in[1], m_entries |-> << >>, m_low_entries |-> LoadVec(in[2]),
        m_mid_entries |-> LoadVec(in[3]), m_C |-> LoadVec(in[4]),
        m_C_sel |-> [v |-> self, arg_cnt |-> in[5]], base |-> base]

Load(base) ==
  /\ pc = "serialized"
  /\ pc' = "loaded"
  /\ last = NoCall
  /\ obj' = [obj EXCEPT !["fresh"] = Loaded(variant, stream, "fresh", base)]
  /\ UNCHANGED <<variant, input, prefix_sums, cwrites, slot_writes, stream, last>>

Build ==
  \/ \E base \in (IF variant = "triangle" THEN Bases ELSE {0}) : Construct(base)
  \/ CountKeys
  \/ BuildC
  \/ ExclusiveSums
  \/ Place

Query ==
  \/ \E q \in QueryKeys, errors \in Errors, flag \in BOOLEAN : Match(q, errors, flag)
  \/ Discard

Persist ==
  \/ Serialize
  \/ \E base \in (IF variant = "triangle" THEN Bases ELSE {0}) : Load(base)

Next == Build \/ Query \/ Persist
Spec == Init /\ [][Next]_vars

\* ================================================================ claims
Count(seq, x) == Cardinality({ j \in DOMAIN seq : seq[j] = x })
Dist(a, b) == Cardinality(Xor(a, b))
\* the top splitter_bits - 6 bits of the permuted key
HighPrefix(x) == ToNat(Shr(mi_permute(x), high_shift))
IsMatch == last /= NoCall
TriangleCall == IsMatch /\ variant = "triangle"
SimpleCall == IsMatch /\ variant = "simple"
Returned == IsMatch /\ ~last.out.ub
\* the keys of S that share q's prefix and whose popcount is within k of q's
InEnvelope(x, q, k) ==
  /\ HighPrefix(x) = HighPrefix(q)
  /\ cnt(x) >= (IF cnt(q) > k THEN cnt(q) - k ELSE 0)
  /\ cnt(x) <= (IF cnt(q) + k < 64 THEN cnt(q) + k ELSE 64)

\* C1: triangle completeness. Every key of the input that shares the query's
\* high prefix and lies within Hamming distance k of it is returned by
\* match(q, k, false) at least once per occurrence in the input.
C1_Completeness ==
  (TriangleCall /\ Returned /\ ~last.flag /\ last.errors <= t_k) =>
    \A j \in DOMAIN input :
      (HighPrefix(input[j]) = HighPrefix(last.q) /\ Dist(last.q, input[j]) <= last.errors)
        => Count(last.out.res, input[j]) >= Count(input, input[j])

\* C2: triangle soundness. Every key returned by match(q, k, false) is within
\* distance k of q and is returned no more often than it occurs in the input.
C2_Soundness ==
  (TriangleCall /\ Returned /\ ~last.flag /\ last.errors <= t_k) =>
    \A j \in DOMAIN last.out.res :
      /\ Dist(last.q, last.out.res[j]) <= last.errors
      /\ Count(last.out.res, last.out.res[j]) <= Count(input, last.out.res[j])

\* C3: simple variant, exact result. match(q, k, false) returns, as a multiset,
\* the keys of the input in q's bucket within distance k of q; a key is
\* recovered from its stored low bits and its bucket id.
C3_SimpleExact ==
  (SimpleCall /\ ~last.flag) =>
    /\ ~last.out.ub
    /\ \A y \in { input[j] : j \in DOMAIN input } \cup { last.out.res[j] : j \in DOMAIN last.out.res } :
         Count(last.out.res, y) =
           IF simple_get_bucket_id(y) = simple_get_bucket_id(last.q)
              /\ Dist(last.q, y) <= last.errors
           THEN Count(input, y) ELSE 0
    /\ \A j \in DOMAIN input :
         mi_rev_permute(Or(SimplePayload(input[j]),
                           BucketMask(simple_get_bucket_id(input[j])))) = input[j]

\* C3 witness: a simple query in a bucket other than 0 that returned a key
\* and rejected a key of the same bucket that is too far from q.
C3_Witness ==
  /\ SimpleCall /\ ~last.flag /\ pc = "built"
  /\ last.out.bl /= 0
  /\ last.out.res /= << >>
  /\ \E j \in DOMAIN input :
       /\ simple_get_bucket_id(input[j]) = simple_get_bucket_id(last.q)
       /\ Dist(last.q, input[j]) > last.errors

\* C4: candidate envelope. candidate_count is the number of stored entries of
\* the examined slice: the keys of q's bucket (simple), the keys that share q's
\* prefix and whose popcount is in [max(pc(q)-k,0), min(pc(q)+k,64)] (triangle),
\* for either value of candidates_only.
C4_Envelope ==
  (Returned /\ last.errors <= t_k) =>
    last.out.candidates =
      IF variant = "simple"
      THEN Cardinality({ j \in DOMAIN input :
                           simple_get_bucket_id(input[j]) = simple_get_bucket_id(last.q) })
      ELSE Cardinality({ j \in DOMAIN input : InEnvelope(input[j], last.q, last.errors) })

\* candidate_count of the triangle index for (q, k)
Candidates(q, k) == MatchOf(variant, obj, "idx", q, k, TRUE).candidates

\* C5: monotone candidate count. For k1 <= k2 <= t_k the triangle variant's
\* candidate_count for (q, k1) is at most that for (q, k2).
C5_Monotone ==
  (variant = "triangle" /\ pc = "built" /\ last = NoCall) =>
    \A q \in QueryKeys : \A k1 \in Errors : \A k2 \in Errors :
      k1 <= k2 => ULe(Candidates(q, k1), Candidates(q, k2))

\* C7: triangle bucket addressing. The three ids have x's prefix as high
\* part; their cardinality parts are popcount(x), max(popcount(x)-k, 0) and
\* min(popcount(x)+k, 64); hence left <= id <= right.
C7_Addressing ==
  (TriangleCall /\ last.errors <= t_k) =>
    LET x == last.q
        k == last.errors
        id == get_bucket_id(x)
        HighPart(i) == i \div Pow2(distance_bits)
        CardPart(i) == i - HighPart(i) * Pow2(distance_bits)
    IN /\ HighPart(id) = HighPrefix(x)
       /\ HighPart(last.out.bl) = HighPrefix(x)
       /\ HighPart(last.out.br) = HighPrefix(x)
       /\ CardPart(id) = cnt(x)
       /\ CardPart(last.out.bl) = (IF cnt(x) > k THEN cnt(x) - k ELSE 0)
       /\ CardPart(last.out.br) = (IF cnt(x) + k < 64 THEN cnt(x) + k ELSE 64)
       /\ last.out.bl <= id
       /\ id <= last.out.br

\* C6: serialization round trip. serialize writes n, the entries, (triangle:
\* the mid entries,) C and the select support in this order; the instance
\* loaded from the stream has the same size(), a select support bound to its
\* own C, and answers every match as the serialized instance does.
C6_RoundTrip ==
  (pc = "loaded") =>
    /\ obj["fresh"].m_n = obj["idx"].m_n
    /\ obj["fresh"].m_C_sel.v = "fresh"
    /\ stream[1] = obj["idx"].m_n
    /\ stream[2].data = (IF variant = "simple" THEN obj["idx"].m_entries
                         ELSE obj["idx"].m_low_entries)
    /\ variant = "triangle" => stream[3].data = obj["idx"].m_mid_entries
    /\ stream[Len(stream) - 1].data = obj["idx"].m_C
    /\ stream[Len(stream)] = obj["idx"].m_C_sel.arg_cnt
    /\ IsMatch =>
         LET a == MatchOf(variant, obj, "idx", last.q, last.errors, last.flag)
         IN /\ last.who = "fresh"
            /\ last.out.ub = a.ub
            /\ ~a.ub => (last.out.res = a.res /\ last.out.candidates = a.candidates)

\* C6 witness: a loaded triangle index whose entries lie at another alignment
\* than the original's answered a query with a result.
C6_Witness ==
  /\ pc = "loaded" /\ TriangleCall /\ Returned /\ ~last.flag
  /\ last.out.res /= << >>
  /\ Len(input) > MaxN
  /\ obj["fresh"].base /= obj["idx"].base

\* the bucket ids of the input keys, and the number of keys below bucket b
Bids == [j \in DOMAIN input |-> bucket_id(variant, input[j])]
Below(bids, b) == Cardinality({ j \in DOMAIN bids : bids[j] < b })
Constructed == pc = "built" /\ last = NoCall

\* C8: bucket boundary vector. After construction C has length U + n and
\* exactly U ones; the i-th one follows as many zeros as there are keys with
\* bucket id i-1, so select_1(b) - b + 1 is the number of keys with id < b.
C8_BoundaryVector ==
  Constructed =>
    \E C \in {obj["idx"].m_C} : \E bids \in {Bids} :
      \E ones \in {{ p \in DOMAIN C : C[p] = 1 }} :
        /\ Size(C) = splitter_universe + Len(input)
        /\ DOMAIN C = 0 .. (splitter_universe + Len(input) - 1)
        /\ Cardinality(ones) = splitter_universe
        /\ ones = { Below(bids, i) + i - 1 : i \in 1 .. splitter_universe }
        /\ \A b \in 1 .. splitter_universe :
             \E p \in {select_1(C, b)} :
               /\ p \in ones
               /\ p - b + 1 = Below(bids, b)

\* C8 witness: constructed from an input with two keys in one bucket and a
\* key in another bucket.
C8_Witness ==
  /\ Constructed
  /\ \E i, j \in DOMAIN input : i /= j /\ Bids[i] = Bids[j]
  /\ \E i, j \in DOMAIN input : Bids[i] /= Bids[j]

Payload(o, i) ==
  IF variant = "simple" THEN <<o.m_entries[i]>> ELSE <<o.m_low_entries[i], o.m_mid_entries[i]>>
PayloadOf(x) ==
  IF variant = "simple" THEN <<SimplePayload(x)>>
  ELSE <<low_xor_of(mi_permute(x)), mid_of(mi_permute(x))>>

\* C9: counting-sort placement. After construction every slot of the entry
\* store was written exactly once, and for every bucket b the slice
\* [l(b), r(b)) holds exactly the payloads of the keys of bucket b (as a
\* multiset); the slices follow each other in bucket order.
C9_Placement ==
  Constructed =>
    \E o \in {obj["idx"]} : \E bids \in {Bids} : \E n \in {Len(input)} :
      \E R \in {[b \in 0 .. (splitter_universe - 1) |-> SliceRight(o.m_C, b)]} :
        /\ DOMAIN slot_writes = 0 .. (n - 1)
        /\ \A i \in 0 .. (n - 1) : slot_writes[i] = 1
        /\ R[splitter_universe - 1] = n
        /\ \A b \in 0 .. (splitter_universe - 1) :
             R[b] - (IF b = 0 THEN 0 ELSE R[b - 1])
               = Cardinality({ j \in 1 .. n : bids[j] = b })
        /\ \A j \in 1 .. n :
             \E b \in {bids[j]} : \E l \in {SliceLeft(o.m_C, b)} : \E pl \in {PayloadOf(input[j])} :
               /\ l = (IF b = 0 THEN 0 ELSE R[b - 1])
               /\ Cardinality({ i \in l .. (R[b] - 1) : Payload(o, i) = pl })
                    = Cardinality({ j2 \in 1 .. n :
                                      bids[j2] = b /\ PayloadOf(input[j2]) = pl })

\* C9 witness: constructed from an input in which a key of a smaller bucket
\* comes after a key of a larger one, and a bucket holds two keys.
C9_Witness ==
  /\ Constructed
  /\ \E i, j \in DOMAIN input : i < j /\ Bids[j] < Bids[i]
  /\ \E i, j \in DOMAIN input : i /= j /\ Bids[i] = Bids[j]

\* C10: triangle scan coverage. For a slice [l, r) with l <= r, prologue, SIMD
\* body and epilogue examine the indices l .. r-1 once each, in order, and
\* nothing else; the mid index equals the low index at every entry; the scan
\* ends with the pointer at end.
C10_ScanCoverage ==
  (TriangleCall /\ ~last.flag /\ last.out.begin <= last.out.end) =>
    /\ ~last.out.ub
    /\ last.out.visited =
         [i \in 1 .. (last.out.end - last.out.begin) |->
            <<last.out.begin + i - 1, last.out.begin + i - 1>>]
    /\ last.out.it = last.out.end
    /\ last.out.l = last.out.end

\* C10 witness: a scan that started misaligned and ran the prologue, the
\* SIMD body and the epilogue.
C10_Witness ==
  /\ TriangleCall /\ ~last.flag /\ last.out.begin <= last.out.end
  /\ Misaligned(obj[last.who], last.out.begin)
  /\ \E i \in DOMAIN last.out.ph : last.out.ph[i] = "prologue"
  /\ \E i \in DOMAIN last.out.ph : last.out.ph[i] = "body"
  /\ \E i \in DOMAIN last.out.ph : last.out.ph[i] = "epilogue"

\* the 32-bit popcount the first cut compares with errors
FoldDist(q, low_xor) == cnt(And(Xor(QParts(q).q_xor, low_xor), lo_set(32)))
\* the slots of instance o that hold the pair built from key x
SlotsOf(o, x) == { i \in DOMAIN o.m_low_entries : Payload(o, i) = PayloadOf(x) }

\* C11: 32-bit filter soundness. For a stored pair (low_xor, mid) of a key
\* that shares the query's prefix, popcount32(q_xor XOR low_xor) is at most
\* the 64-bit distance of the permuted key and the permuted query, so none of
\* the three first cuts discards a key within distance k; low_xor XOR mid is
\* the key's low 32 bits, the pair rebuilt under the query's prefix is the
\* permuted key, and an examined key within distance k is returned.
C11_FilterSound ==
  (TriangleCall /\ Returned) =>
    \E o \in {obj[last.who]} : \E k \in {last.errors} : \E qp \in {QParts(last.q)} :
      \A j \in DOMAIN input :
        HighPrefix(input[j]) = HighPrefix(last.q) =>
          \E x \in {input[j]} : \E px \in {mi_permute(input[j])} :
            \E d \in {cnt(Xor(qp.q_permuted, px))} :
              /\ SlotsOf(o, x) /= {}
              /\ \A i \in SlotsOf(o, x) :
                   \E low_xor \in {o.m_low_entries[i]} : \E mid \in {o.m_mid_entries[i]} :
                     /\ FoldDist(last.q, low_xor) <= d
                     /\ d <= k => /\ PrologueFilter(qp.q_xor, low_xor, k)
                                  /\ LaneFilter(qp.q_xor, low_xor, k)
                                  /\ EpilogueFilter(qp.q_xor, low_xor, k)
                     /\ Xor(low_xor, mid) = And(px, low_mask)
                     /\ Or(Or(qp.q_high, Shl(mid, mid_shift)), Xor(low_xor, mid)) = px
                     /\ (~last.flag /\ d <= k
                           /\ \E v \in DOMAIN last.out.visited : last.out.visited[v][1] = i)
                          => \E r \in DOMAIN last.out.res : last.out.res[r] = x

\* C11 witness: a query examined and returned a key at distance k > 0 from
\* it, and a key of its prefix has a 32-bit popcount below its distance.
C11_Witness ==
  /\ TriangleCall /\ Returned /\ ~last.flag /\ last.errors > 0
  /\ \E j \in DOMAIN input :
       /\ HighPrefix(input[j]) = HighPrefix(last.q)
       /\ Dist(last.q, input[j]) = last.errors
       /\ \E r \in DOMAIN last.out.res : last.out.res[r] = input[j]
  /\ \E j \in DOMAIN input :
       /\ HighPrefix(input[j]) = HighPrefix(last.q)
       /\ \E i \in SlotsOf(obj[last.who], input[j]) :
            FoldDist(last.q, obj[last.who].m_low_entries[i]) < Dist(last.q, input[j])

\* C12: bounds safety of building C. Once build_small_universe has filled C,
\* every index at which it wrote a bit is below C's length U + n: no write at
\* or past the length happened, and the cursor ended at most at the length.
C12_BoundsSafe ==
  (pc \notin {"new", "alloc", "counted"}) =>
    /\ cwrites.oob = << >>
    /\ cwrites.idx <= splitter_universe + Len(input)
====
